---- MODULE Spec2Model ----
(***************************************************************************)
(* Model of server/python/convert_files.py: the conversion of a .tar.gz    *)
(* archive of sequence files into one FASTA file.                          *)
(*                                                                         *)
(* A run of main() is modelled: the command line is parsed, then           *)
(* convert_tar_to_fasta() creates the extraction directory, extracts the   *)
(* archive, writes the two header lines, walks the extracted files and     *)
(* removes the directory.  Every I/O call may fail; the exception then     *)
(* takes the path the try/except blocks of the source give it.  Under      *)
(* SpecTwice the caller runs the program a second time with the same       *)
(* command line, on the files the first run left.                          *)
(***************************************************************************)
EXTENDS Integers, Sequences, FiniteSets, TLC

(* ---------------- bounds ---------------- *)

\* most members an archive holds
MaxEntries == 2

(* ---------------- program constants ---------------- *)

\* default of process_fastq_to_fasta(..., quality_threshold=20)
DefaultQualityThreshold == 20

\* default of the --quality-threshold option
CliDefaultThreshold == 20

\* values the caller may pass as --quality-threshold
CliThresholds == {0, CliDefaultThreshold}

\* formats_to_try of process_generic_sequences, in its order
formats_to_try == <<"fasta", "genbank", "embl", "swiss">>

(* ---------------- file names ---------------- *)

\* str.lower() on a member name
Lower(name) ==
  CASE name = ".FASTQ.GZ" -> ".fastq.gz"
    [] name = ".FA.GZ"    -> ".fa.gz"
    [] OTHER              -> name

\* str.endswith('.gz'), case-sensitive
EndsWithGz(name) == name \in {".fastq.gz", ".fa.gz", ".fasta.gz", ".fq.gz"}

\* the elif chain of convert_tar_to_fasta over file_lower
Category(name) ==
  LET file_lower == Lower(name) IN
  IF file_lower \in {".fastq", ".fastq.gz", ".fq", ".fq.gz"} THEN "fastq"
  ELSE IF file_lower \in {".fasta", ".fasta.gz", ".fa", ".fa.gz", ".fas"} THEN "fasta"
  ELSE IF file_lower \in {".gb", ".gbk", ".genbank"} THEN "generic"
  ELSE IF file_lower = ".txt" THEN "generic"
  ELSE "unknown"

(* ---------------- archive members ---------------- *)

\* A member: its name, whether it is a regular file, whether its bytes are
\* gzip-compressed, its records (each the list of its phred scores), whether
\* malformed text follows the last record, and, per format of formats_to_try,
\* what a trial parse of the file gives: -1 (the parse raises) or the number
\* of records it yields.
Member(name, isfile, gzdata, recs, bad, probe) ==
  [name |-> name, isfile |-> isfile, gzdata |-> gzdata,
   recs |-> recs, bad |-> bad, probe |-> probe]

NoProbe == <<0, 0, 0, 0>>

Catalogue ==
  { Member(".fastq",    TRUE,  FALSE, << <<19, 21>>, <<19, 20>> >>, FALSE, NoProbe),
    Member(".fq",       TRUE,  FALSE, << <<30>>, <<10>> >>,         FALSE, NoProbe),
    Member(".fastq",    TRUE,  FALSE, << <<30>> >>,                 TRUE,  NoProbe),
    Member(".fastq",    TRUE,  FALSE, << <<>> >>,                   FALSE, NoProbe),
    Member(".fastq.gz", TRUE,  TRUE,  << <<20>> >>,                 FALSE, NoProbe),
    Member(".FASTQ.GZ", TRUE,  TRUE,  << <<20>> >>,                 FALSE, NoProbe),
    Member(".fasta",    TRUE,  FALSE, << <<>>, <<>> >>,             FALSE, NoProbe),
    Member(".fa.gz",    TRUE,  TRUE,  << <<>> >>,                   FALSE, NoProbe),
    Member(".FA.GZ",    TRUE,  TRUE,  << <<>> >>,                   FALSE, NoProbe),
    Member(".gb",       TRUE,  FALSE, <<>>, FALSE, <<0, 2, 0, 0>>),
    Member(".txt",      TRUE,  FALSE, <<>>, FALSE, <<1, 2, 0, 0>>),
    Member(".txt",      TRUE,  FALSE, <<>>, FALSE, <<0, -1, 0, -1>>),
    Member(".txt",      TRUE,  FALSE, <<>>, FALSE, <<-1, 0, 1, 2>>),
    Member(".gbk",      TRUE,  FALSE, <<>>, FALSE, <<2, 2, 0, 0>>),
    Member(".csv",      TRUE,  FALSE, <<>>, FALSE, NoProbe),
    Member("dir/",      FALSE, FALSE, <<>>, FALSE, NoProbe) }

Archives == UNION { [1..n -> Catalogue] : n \in 0..MaxEntries }

(* ---------------- output lines ---------------- *)

\* a line of the output file: one of the two '#' comment lines, or the '>'
\* header line of record r of extracted file e, decoded as format fmt
CommentLine(n) == [kind |-> "comment", e |-> 0, r |-> n, fmt |-> "none"]
RecordLine(e, r, fmt) == [kind |-> "record", e |-> e, r |-> r, fmt |-> fmt]

\* what the `with open(output_fasta_path, 'w')` block writes
HeaderLines == <<CommentLine(1), CommentLine(2)>>

\* len([line for line in f if line.startswith('>')])
RECURSIVE CountHeaders(_)
CountHeaders(lines) ==
  IF lines = <<>> THEN 0
  ELSE (IF Head(lines).kind = "record" THEN 1 ELSE 0) + CountHeaders(Tail(lines))

(* ---------------- the quality filter ---------------- *)

RECURSIVE Sum(_)
Sum(s) == IF s = <<>> THEN 0 ELSE Head(s) + Sum(Tail(s))

\* the comparison with > in place of >=: a mean equal to the threshold fails
AvgQualityPasses_Strict(q, threshold) == Sum(q) > threshold * Len(q)

\* avg_quality >= quality_threshold, with avg_quality = sum(q) / len(q);
\* len(q) > 0, so the comparison of the quotient is that of the cross product
AvgQualityPasses(q, threshold) == Sum(q) >= threshold * Len(q)

\* the branch taken for one record of process_fastq_to_fasta: "write",
\* "filter", or "raise" when sum(q) / len(q) divides by zero (an empty read)
FilterDecision(rec, threshold) ==
  IF rec.has_quality
  THEN IF Len(rec.q) = 0 THEN "raise"
       ELSE IF AvgQualityPasses(rec.q, threshold) THEN "write" ELSE "filter"
  ELSE "write"

(* ---------------- state ---------------- *)

VARIABLES
  args_quality_threshold, \* args.quality_threshold of main()
  archive,                \* the members of the input archive
  text_lenient,           \* the locale's text encoding decodes any byte (e.g. latin-1)
  pc,                     \* where the run is
  dir_exists,             \* os.path.exists(extract_dir)
  shutil_bound,           \* the local name shutil is bound (import executed)
  extracted_files,        \* extracted_files of convert_tar_to_fasta
  output_exists,          \* os.path.exists(output_fasta_path)
  output,                 \* the lines of the output file
  i,                      \* position of file_path in extracted_files
  total_sequences,        \* total_sequences of convert_tar_to_fasta
  seq_count,              \* seq_count of convert_tar_to_fasta
  quality_threshold,      \* parameter of process_fastq_to_fasta
  sequences_written,      \* local of the running process_* function
  sequences_filtered,     \* local of process_fastq_to_fasta
  k,                      \* records the running for loop has consumed
  record,                 \* the record the for loop holds, <<>> when none
  f,                      \* position of fmt in formats_to_try
  sequences,              \* sequences of process_generic_sequences
  exc,                    \* the exception in flight, or the one that escaped
  skipped,                \* "Skipping unknown file type" / "unknown format" diagnostics logged
  faults,                 \* kinds of failure that occurred in the run
  run,                    \* which invocation of the program this is
  first_pc,               \* how the first invocation ended, "none" during it
  first_output,           \* the output file as the first invocation left it
  first_faults            \* the failures that occurred in the first invocation

vars ==
  <<args_quality_threshold, archive, pc, dir_exists, shutil_bound,
    extracted_files, output_exists, output, i, total_sequences, seq_count,
    quality_threshold, sequences_written, sequences_filtered, k, record, f,
    sequences, exc, skipped, faults, text_lenient, run, first_pc, first_output,
    first_faults>>

\* variables only the per-file functions touch
locals == <<quality_threshold, sequences_written, sequences_filtered, k, record, f, sequences>>
\* the command line, the archive and the locale never change
inputs == <<args_quality_threshold, archive, text_lenient>>
\* what is remembered of the first invocation
history == <<run, first_pc, first_output, first_faults>>

Terminal == {"done", "failed"}

Init ==
  /\ args_quality_threshold \in CliThresholds
  /\ archive \in Archives
  /\ pc = "start"
  /\ dir_exists = FALSE
  /\ shutil_bound = FALSE
  /\ extracted_files = <<>>
  /\ output_exists = FALSE
  /\ output = <<>>
  /\ i = 0
  /\ total_sequences = 0
  /\ seq_count = 0
  /\ quality_threshold = 0
  /\ sequences_written = 0
  /\ sequences_filtered = 0
  /\ k = 0
  /\ record = <<>>
  /\ f = 0
  /\ sequences = <<>>
  /\ exc = "none"
  /\ skipped = 0
  /\ faults = {}
  /\ text_lenient \in BOOLEAN
  /\ run = 1
  /\ first_pc = "none"
  /\ first_output = <<>>
  /\ first_faults = {}

\* an exception of kind cause, recorded as fault, reaches the except block
\* of convert_tar_to_fasta
Raise(cause, fault) ==
  /\ exc' = cause
  /\ faults' = faults \cup {fault}
  /\ pc' = "handler"

\* a per-file function returns: its locals are gone, the for loop advances
ReturnToLoop ==
  /\ quality_threshold' = 0
  /\ sequences_written' = 0
  /\ sequences_filtered' = 0
  /\ k' = 0
  /\ record' = <<>>
  /\ f' = 0
  /\ sequences' = <<>>
  /\ i' = i + 1
  /\ pc' = "loop"

(* ---------------- convert_tar_to_fasta: before the loop ---------------- *)

\* the header block written before the archive is extracted: the output is
\* created and cleared as the first step of the run
Makedirs_WritesHeader ==
  /\ pc = "start"
  /\ dir_exists' = TRUE
  /\ output' = HeaderLines
  /\ output_exists' = TRUE
  /\ pc' = "extract"
  /\ UNCHANGED <<inputs, history, shutil_bound, extracted_files, i,
                 total_sequences, seq_count, locals, skipped, exc, faults>>

\* os.makedirs(extract_dir, exist_ok=True)
Makedirs ==
  /\ pc = "start"
  /\ \/ /\ dir_exists' = TRUE
        /\ pc' = "extract"
        /\ UNCHANGED <<exc, faults>>
     \/ /\ Raise("OSError", "mkdir")
        /\ UNCHANGED dir_exists
  /\ UNCHANGED <<inputs, history, shutil_bound, extracted_files, output_exists, output, i,
                 total_sequences, seq_count, locals, skipped>>

\* extracted_files = extract_tar_gz(input_tar_path, extract_dir)
extract_tar_gz ==
  /\ pc = "extract"
  /\ \/ /\ extracted_files' = archive
        /\ pc' = "init_output"
        /\ UNCHANGED <<exc, faults>>
     \/ /\ Raise("ExtractionError", "extract")
        /\ UNCHANGED extracted_files
  /\ UNCHANGED <<inputs, history, dir_exists, shutil_bound, output_exists, output, i,
                 total_sequences, seq_count, locals, skipped>>

\* the output opened with 'a' in place of 'w': the two comment lines are
\* appended to what the file holds
InitOutput_Appends ==
  /\ pc = "init_output"
  /\ \/ /\ output' = output \o HeaderLines
        /\ output_exists' = TRUE
        /\ i' = 1
        /\ pc' = "loop"
        /\ UNCHANGED <<exc, faults>>
     \/ /\ Raise("WriteError", "write")
        /\ UNCHANGED <<output, output_exists, i>>
  /\ UNCHANGED <<inputs, history, dir_exists, shutil_bound, extracted_files,
                 total_sequences, seq_count, locals, skipped>>

\* with open(output_fasta_path, 'w') as f: two f.write; total_sequences = 0
InitOutput ==
  /\ pc = "init_output"
  /\ \/ /\ output' = HeaderLines
        /\ output_exists' = TRUE
        /\ i' = 1
        /\ pc' = "loop"
        /\ UNCHANGED <<exc, faults>>
     \/ \* open() fails: the file is as it was
        /\ Raise("WriteError", "write")
        /\ UNCHANGED <<output, output_exists, i>>
     \/ \* a write fails after the file was truncated
        /\ Raise("WriteError", "write")
        /\ output_exists' = TRUE
        /\ output' \in {<<>>, <<CommentLine(1)>>}
        /\ UNCHANGED i
  /\ UNCHANGED <<inputs, history, dir_exists, shutil_bound, extracted_files,
                 total_sequences, seq_count, locals, skipped>>

(* ---------------- convert_tar_to_fasta: the loop over extracted_files ---------------- *)

file_path == extracted_files[i]

InLoop == pc = "loop" /\ i <= Len(extracted_files)

\* os.path.isfile(file_path) is false: the loop body does nothing
NotAFile ==
  /\ InLoop
  /\ ~file_path.isfile
  /\ i' = i + 1
  /\ UNCHANGED <<inputs, history, pc, dir_exists, shutil_bound, extracted_files, output_exists,
                 output, total_sequences, seq_count, locals, exc, skipped, faults>>

\* the else branch raising in place of logging: an unrecognized suffix
\* becomes an error of the run
SkipUnknown_Raises ==
  /\ InLoop
  /\ file_path.isfile
  /\ Category(file_path.name) = "unknown"
  /\ Raise("UnknownFormat", "decode")
  /\ UNCHANGED <<inputs, history, dir_exists, shutil_bound, extracted_files, output_exists,
                 output, i, total_sequences, seq_count, locals, skipped>>

\* the else branch: "Skipping unknown file type"
SkipUnknown ==
  /\ InLoop
  /\ file_path.isfile
  /\ Category(file_path.name) = "unknown"
  /\ skipped' = skipped + 1
  /\ i' = i + 1
  /\ UNCHANGED <<inputs, history, pc, dir_exists, shutil_bound, extracted_files, output_exists,
                 output, total_sequences, seq_count, locals, exc, faults>>

(* ---------------- process_fastq_to_fasta ---------------- *)

\* the output opened with 'w' in place of 'a' by process_fastq_to_fasta:
\* the file is emptied before the records of this file are written
CallFastq_Truncates ==
  /\ InLoop
  /\ file_path.isfile
  /\ Category(file_path.name) = "fastq"
  /\ quality_threshold' = DefaultQualityThreshold
  /\ sequences_written' = 0
  /\ sequences_filtered' = 0
  /\ k' = 0
  /\ pc' = "fastq_parse"
  /\ output' = <<>>
  /\ UNCHANGED <<inputs, history, dir_exists, shutil_bound, extracted_files, output_exists,
                 i, total_sequences, seq_count, record, f, sequences, skipped, exc, faults>>

\* the call process_fastq_to_fasta(file_path, output_fasta_path): no threshold
\* is passed, so the parameter takes its default; both files are opened
CallFastq ==
  /\ InLoop
  /\ file_path.isfile
  /\ Category(file_path.name) = "fastq"
  /\ \/ /\ quality_threshold' = DefaultQualityThreshold
        /\ sequences_written' = 0
        /\ sequences_filtered' = 0
        /\ k' = 0
        /\ pc' = "fastq_parse"
        /\ UNCHANGED <<exc, faults>>
     \/ \* open(output_fasta, 'a') fails
        /\ Raise("WriteError", "write")
        /\ UNCHANGED <<quality_threshold, sequences_written, sequences_filtered, k>>
  /\ UNCHANGED <<inputs, history, dir_exists, shutil_bound, extracted_files, output_exists, output,
                 i, total_sequences, seq_count, record, f, sequences, skipped>>

\* the handle reads the bytes it was opened for: gzip.open iff the path
\* ends with '.gz' (case-sensitive), and the bytes are gzip iff gzdata
Readable(member) == EndsWithGz(member.name) = member.gzdata

\* one step of `for record in SeqIO.parse(handle, "fastq")`
FastqParse ==
  /\ pc = "fastq_parse"
  /\ IF Readable(file_path) /\ k < Len(file_path.recs)
     THEN /\ record' = << [has_quality |-> TRUE, q |-> file_path.recs[k + 1]] >>
          /\ k' = k + 1
          /\ pc' = "fastq_filter"
          /\ UNCHANGED <<i, quality_threshold, sequences_written, sequences_filtered,
                         f, sequences, exc, faults>>
     ELSE IF Readable(file_path) /\ ~file_path.bad
     THEN \* end of file: the two logger.info lines, return
          /\ ReturnToLoop
          /\ UNCHANGED <<exc, faults>>
     ELSE \* the parser (or the decompressor, or the text decoder) raises
          /\ Raise("DecodeError", "decode")
          /\ UNCHANGED <<i, locals>>
  /\ UNCHANGED <<inputs, history, dir_exists, shutil_bound, extracted_files, output_exists, output,
                 total_sequences, seq_count, skipped>>

\* the body of the for loop: average, compare, write or count as filtered
FastqFilter ==
  /\ pc = "fastq_filter"
  /\ LET decision == FilterDecision(record[1], quality_threshold) IN
     \/ /\ decision = "write"
        /\ \/ /\ output' = Append(output, RecordLine(i, k, "fastq"))
              /\ sequences_written' = sequences_written + 1
              /\ record' = <<>>
              /\ pc' = "fastq_parse"
              /\ UNCHANGED <<sequences_filtered, exc, faults>>
           \/ /\ Raise("WriteError", "write")
              /\ UNCHANGED <<output, sequences_written, sequences_filtered, record>>
     \/ /\ decision = "filter"
        /\ sequences_filtered' = sequences_filtered + 1
        /\ record' = <<>>
        /\ pc' = "fastq_parse"
        /\ UNCHANGED <<output, sequences_written, exc, faults>>
     \/ /\ decision = "raise"
        /\ Raise("ZeroDivisionError", "zerodiv")
        /\ UNCHANGED <<output, sequences_written, sequences_filtered, record>>
  /\ UNCHANGED <<inputs, history, dir_exists, shutil_bound, extracted_files, output_exists,
                 i, total_sequences, seq_count, quality_threshold, k, f, sequences, skipped>>

(* ---------------- the FASTA branch of convert_tar_to_fasta ---------------- *)

\* both with blocks are entered
OpenFasta ==
  /\ InLoop
  /\ file_path.isfile
  /\ Category(file_path.name) = "fasta"
  /\ \/ /\ k' = 0
        /\ pc' = "fasta_parse"
        /\ UNCHANGED <<exc, faults>>
     \/ /\ Raise("WriteError", "write")
        /\ UNCHANGED k
  /\ UNCHANGED <<inputs, history, dir_exists, shutil_bound, extracted_files, output_exists, output,
                 i, total_sequences, seq_count, quality_threshold, sequences_written,
                 sequences_filtered, record, f, sequences, skipped>>

\* one step of `for record in SeqIO.parse(..., "fasta")`
FastaParse ==
  /\ pc = "fasta_parse"
  /\ \/ /\ Readable(file_path)
        /\ k < Len(file_path.recs)
        /\ record' = << [has_quality |-> FALSE, q |-> <<>>] >>
        /\ k' = k + 1
        /\ pc' = "fasta_write"
        /\ UNCHANGED <<i, quality_threshold, sequences_written, sequences_filtered,
                       f, sequences, exc, faults>>
     \/ \* end of file; compressed bytes read as text decode, under a
        \* lenient encoding, to text that holds no record
        /\ \/ Readable(file_path) /\ k = Len(file_path.recs)
           \/ ~Readable(file_path) /\ ~EndsWithGz(file_path.name) /\ text_lenient
        /\ ReturnToLoop
        /\ UNCHANGED <<exc, faults>>
     \/ \* BadGzipFile, or UnicodeDecodeError on compressed bytes read as text
        /\ ~Readable(file_path)
        /\ EndsWithGz(file_path.name) \/ ~text_lenient
        /\ Raise("DecodeError", "decode")
        /\ UNCHANGED <<i, locals>>
  /\ UNCHANGED <<inputs, history, dir_exists, shutil_bound, extracted_files, output_exists, output,
                 total_sequences, seq_count, skipped>>

\* the record written right after the comment lines, before the records
\* the file already holds, in place of after them
FastaWrite_Prepends ==
  /\ pc = "fasta_write"
  /\ output' = SubSeq(output, 1, 2) \o <<RecordLine(i, k, "fasta")>>
                  \o SubSeq(output, 3, Len(output))
  /\ total_sequences' = total_sequences + 1
  /\ record' = <<>>
  /\ pc' = "fasta_parse"
  /\ UNCHANGED <<inputs, history, dir_exists, shutil_bound, extracted_files, output_exists,
                 i, seq_count, quality_threshold, sequences_written, sequences_filtered,
                 k, f, sequences, skipped, exc, faults>>

\* SeqIO.write(record, out_handle, "fasta"); total_sequences += 1
FastaWrite ==
  /\ pc = "fasta_write"
  /\ \/ /\ output' = Append(output, RecordLine(i, k, "fasta"))
        /\ total_sequences' = total_sequences + 1
        /\ record' = <<>>
        /\ pc' = "fasta_parse"
        /\ UNCHANGED <<exc, faults>>
     \/ /\ Raise("WriteError", "write")
        /\ UNCHANGED <<output, total_sequences, record>>
  /\ UNCHANGED <<inputs, history, dir_exists, shutil_bound, extracted_files, output_exists,
                 i, seq_count, quality_threshold, sequences_written, sequences_filtered,
                 k, f, sequences, skipped>>

(* ---------------- process_generic_sequences ---------------- *)

\* the call process_generic_sequences(file_path, output_fasta_path), from the
\* GenBank branch or the .txt branch
CallGeneric ==
  /\ InLoop
  /\ file_path.isfile
  /\ Category(file_path.name) = "generic"
  /\ sequences_written' = 0
  /\ f' = 1
  /\ pc' = "generic_try"
  /\ UNCHANGED <<inputs, history, dir_exists, shutil_bound, extracted_files, output_exists, output,
                 i, total_sequences, seq_count, quality_threshold, sequences_filtered,
                 k, record, sequences, exc, skipped, faults>>

\* the bare `except: continue` of the for loop over formats_to_try: whatever
\* was raised inside the try block is dropped and the next format is tried
ExceptContinue ==
  /\ f' = f + 1
  /\ sequences' = <<>>
  /\ k' = 0
  /\ pc' = "generic_try"

\* one iteration of `for fmt in formats_to_try`, up to the inner open
GenericTry ==
  /\ pc = "generic_try"
  /\ f <= Len(formats_to_try)
  /\ LET n == file_path.probe[f] IN
     \/ \* sequences = list(SeqIO.parse(handle, fmt)) raises
        /\ n < 0
        /\ ExceptContinue
        /\ UNCHANGED faults
     \/ \* the list is empty: `if sequences:` is false, next format
        /\ n = 0
        /\ ExceptContinue
        /\ UNCHANGED faults
     \/ \* the list is not empty: "Detected ... format", the output is opened
        /\ n > 0
        /\ sequences' = [r \in 1..n |-> RecordLine(i, r, formats_to_try[f])]
        /\ k' = 0
        /\ pc' = "generic_write"
        /\ UNCHANGED <<f, faults>>
     \/ \* open(output_fasta, 'a') fails inside the try block
        /\ n > 0
        /\ ExceptContinue
        /\ faults' = faults \cup {"write"}
  /\ UNCHANGED <<inputs, history, dir_exists, shutil_bound, extracted_files, output_exists, output,
                 i, total_sequences, seq_count, quality_threshold, sequences_written,
                 sequences_filtered, record, exc, skipped>>

\* one iteration of `for record in sequences`, or the break after the last
GenericWrite ==
  /\ pc = "generic_write"
  /\ \/ /\ k < Len(sequences)
        /\ output' = Append(output, sequences[k + 1])
        /\ sequences_written' = sequences_written + 1
        /\ k' = k + 1
        /\ UNCHANGED <<pc, f, sequences, faults>>
     \/ \* SeqIO.write raises inside the try block
        /\ k < Len(sequences)
        /\ ExceptContinue
        /\ faults' = faults \cup {"write"}
        /\ UNCHANGED <<output, sequences_written>>
     \/ /\ k = Len(sequences)
        /\ pc' = "generic_finish"
        /\ UNCHANGED <<output, sequences_written, k, f, sequences, faults>>
  /\ UNCHANGED <<inputs, history, dir_exists, shutil_bound, extracted_files, output_exists,
                 i, total_sequences, seq_count, quality_threshold, sequences_filtered,
                 record, exc, skipped>>

\* after the for loop (exhausted, or left by break): the warning
\* "Could not parse ... - unknown format" or the info line, then return
GenericFinish ==
  /\ \/ pc = "generic_finish"
     \/ pc = "generic_try" /\ f > Len(formats_to_try)
  /\ skipped' = IF sequences_written = 0 THEN skipped + 1 ELSE skipped
  /\ ReturnToLoop
  /\ UNCHANGED <<inputs, history, dir_exists, shutil_bound, extracted_files, output_exists, output,
                 total_sequences, seq_count, exc, faults>>

(* ---------------- convert_tar_to_fasta: after the loop ---------------- *)

\* the for loop over extracted_files is exhausted
LoopEnd ==
  /\ pc = "loop"
  /\ i > Len(extracted_files)
  /\ pc' = "cleanup"
  /\ UNCHANGED <<inputs, history, dir_exists, shutil_bound, extracted_files, output_exists, output,
                 i, total_sequences, seq_count, locals, exc, skipped, faults>>

\* import shutil; shutil.rmtree(extract_dir)
Cleanup ==
  /\ pc = "cleanup"
  /\ shutil_bound' = TRUE
  /\ \/ /\ dir_exists' = FALSE
        /\ pc' = "verify"
        /\ UNCHANGED <<exc, faults>>
     \/ /\ Raise("RmtreeError", "rmtree")
        /\ UNCHANGED dir_exists
  /\ UNCHANGED <<inputs, history, extracted_files, output_exists, output, i, total_sequences,
                 seq_count, locals, skipped>>

\* the verification also rejecting an output that holds no record
Verify_RejectsHeaderOnly ==
  /\ pc = "verify"
  /\ IF output_exists /\ CountHeaders(output) > 0
     THEN /\ seq_count' = CountHeaders(output)
          /\ pc' = "done"
          /\ UNCHANGED <<exc, faults>>
     ELSE /\ Raise("OutputNotCreated", "verify")
          /\ UNCHANGED seq_count
  /\ UNCHANGED <<inputs, history, dir_exists, shutil_bound, extracted_files, output_exists, output,
                 i, total_sequences, locals, skipped>>

\* if os.path.exists(output_fasta_path): count the '>' lines
\* else: raise Exception("Output file was not created")
Verify ==
  /\ pc = "verify"
  /\ IF output_exists
     THEN /\ seq_count' = CountHeaders(output)
          /\ pc' = "done"
          /\ UNCHANGED <<exc, faults>>
     ELSE /\ Raise("OutputNotCreated", "verify")
          /\ UNCHANGED seq_count
  /\ UNCHANGED <<inputs, history, dir_exists, shutil_bound, extracted_files, output_exists, output,
                 i, total_sequences, locals, skipped>>

\* except Exception as e: the cleanup on error, then raise.  The name shutil
\* is local to the function (the import statement is inside it): reading it
\* before the import ran raises UnboundLocalError in place of the re-raise.
Handler ==
  /\ pc = "handler"
  /\ pc' = "failed"
  /\ IF dir_exists
     THEN IF shutil_bound
          THEN \/ /\ dir_exists' = FALSE
                  /\ UNCHANGED <<exc, faults>>
               \/ /\ exc' = "RmtreeError"
                  /\ faults' = faults \cup {"rmtree"}
                  /\ UNCHANGED dir_exists
          ELSE /\ exc' = "UnboundLocalError"
               /\ UNCHANGED <<dir_exists, faults>>
     ELSE UNCHANGED <<dir_exists, exc, faults>>
  /\ UNCHANGED <<inputs, history, shutil_bound, extracted_files, output_exists, output, i,
                 total_sequences, seq_count, locals, skipped>>

Next ==
  \/ Makedirs
  \/ extract_tar_gz
  \/ InitOutput
  \/ NotAFile
  \/ SkipUnknown
  \/ CallFastq
  \/ FastqParse
  \/ FastqFilter
  \/ OpenFasta
  \/ FastaParse
  \/ FastaWrite
  \/ CallGeneric
  \/ GenericTry
  \/ GenericWrite
  \/ GenericFinish
  \/ LoopEnd
  \/ Cleanup
  \/ Verify
  \/ Handler

Spec == Init /\ [][Next]_vars

(* ---------------- a second invocation ---------------- *)

\* most members of the archive that is converted twice
MaxEntriesTwice == 1

\* the caller starts the program again with the same command line once the
\* first invocation has returned: a new call frame, the files as they were left
Rerun ==
  /\ pc \in Terminal
  /\ run = 1
  /\ run' = 2
  /\ first_pc' = pc
  /\ first_output' = output
  /\ first_faults' = faults
  /\ pc' = "start"
  /\ shutil_bound' = FALSE
  /\ extracted_files' = <<>>
  /\ i' = 0
  /\ total_sequences' = 0
  /\ seq_count' = 0
  /\ quality_threshold' = 0
  /\ sequences_written' = 0
  /\ sequences_filtered' = 0
  /\ k' = 0
  /\ record' = <<>>
  /\ f' = 0
  /\ sequences' = <<>>
  /\ exc' = "none"
  /\ skipped' = 0
  /\ faults' = {}
  /\ UNCHANGED <<inputs, dir_exists, output_exists, output>>

InitTwice == Init /\ Len(archive) <= MaxEntriesTwice

NextTwice == Next \/ Rerun

SpecTwice == InitTwice /\ [][NextTwice]_vars

(* ---------------- helpers of the properties ---------------- *)

\* the failures of the environment: I/O calls that raised
IoFaults == {"mkdir", "extract", "write", "rmtree"}

\* the arithmetic mean of the scores q is at least t (t an integer, q not empty)
MeanAtLeast(q, t) == Sum(q) \div Len(q) >= t

\* every candidate format of a generic member yields no record or raises
NoCandidate(member) == \A g \in 1..Len(formats_to_try) : member.probe[g] <= 0

\* the earliest format of formats_to_try that yields a record of member
EarliestCandidate(member) ==
  CHOOSE g \in 1..Len(formats_to_try) :
    /\ member.probe[g] > 0
    /\ \A h \in 1..(g - 1) : member.probe[h] <= 0

\* the lines of the output that come from extracted file e
LinesOf(e) == { n \in 1..Len(output) : output[n].kind = "record" /\ output[n].e = e }

(* ---------------- C1 ---------------- *)

\* C1: a decode failure on one entry does not abort the run: a run in which
\* an entry failed to decode (and no extraction or write failed) processes
\* every later entry and ends in Done, not in Failed.
C1_DecodeFailureDoesNotAbort ==
  ("decode" \in faults /\ faults \cap IoFaults = {})
    => /\ pc # "failed"
       /\ pc \in Terminal => (pc = "done" /\ i > Len(extracted_files))

(* ---------------- C2 ---------------- *)

\* C2: on every exit path of convert_tar_to_fasta the working directory no
\* longer exists when control returns to the caller (no removal of the
\* directory having itself failed).
C2_WorkDirRemovedOnEveryExit ==
  (pc \in Terminal /\ "rmtree" \notin faults) => ~dir_exists

(* ---------------- C3 ---------------- *)

\* C3: a record with quality scores is written (once) iff the mean of its
\* scores is >= the threshold the filter holds, a mean equal to the threshold
\* included; a record below it is counted as filtered and not written; a
\* record without quality scores is always accepted.
C3_QualityFilterLaw ==
  [][ (pc = "fastq_filter" /\ record[1].has_quality /\ Len(record[1].q) > 0
         /\ pc' = "fastq_parse")
      => /\ IF MeanAtLeast(record[1].q, quality_threshold)
            THEN /\ output' = Append(output, RecordLine(i, k, "fastq"))
                 /\ sequences_written' = sequences_written + 1
                 /\ sequences_filtered' = sequences_filtered
            ELSE /\ output' = output
                 /\ sequences_written' = sequences_written
                 /\ sequences_filtered' = sequences_filtered + 1
         /\ FilterDecision([has_quality |-> FALSE, q |-> <<>>], quality_threshold) = "write"
    ]_vars

\* a record whose mean equals the threshold was written and the next one,
\* below the threshold, was counted as filtered
C3_Witness ==
  /\ pc = "fastq_parse"
  /\ k = 2
  /\ Sum(file_path.recs[1]) = quality_threshold * Len(file_path.recs[1])
  /\ ~MeanAtLeast(file_path.recs[2], quality_threshold)
  /\ sequences_written = 1
  /\ sequences_filtered = 1
  /\ Cardinality(LinesOf(i)) = 1

(* ---------------- C4 ---------------- *)

\* C4: the threshold applied to reads-with-quality records is the value the
\* caller configured for the run; a run configured with 0 filters no record.
C4_ThresholdIsTheConfiguredOne ==
  /\ pc \in {"fastq_parse", "fastq_filter"} => quality_threshold = args_quality_threshold
  /\ args_quality_threshold = 0 => sequences_filtered = 0

(* ---------------- C5 ---------------- *)

\* C5: once the extraction or a write to the output has failed, whatever the
\* category of the entry, the run is on its way to Failed: nothing else is
\* processed or written, and the run does not end in Done.
C5_ExtractAndWriteFailuresAreFatal ==
  (faults \cap {"extract", "write"} # {}) => pc \in {"handler", "failed"}

(* ---------------- C6 ---------------- *)

\* C6: for a generic entry the records written are those of the earliest
\* candidate that yields a record, and no candidate is attempted after one
\* that yielded a record.
C6_FirstCandidateWins ==
  /\ \A n \in 1..Len(output) :
       (output[n].kind = "record" /\ Category(extracted_files[output[n].e].name) = "generic")
         => output[n].fmt = formats_to_try[EarliestCandidate(extracted_files[output[n].e])]
  /\ (pc = "generic_try" /\ f <= Len(formats_to_try))
       => \A g \in 1..(f - 1) : file_path.probe[g] <= 0

(* ---------------- C7 ---------------- *)

\* C7: when the run ends in Done the run-wide written counter equals the
\* number of record header lines in the output, over entries of every category.
C7_WrittenCounterMatchesOutput ==
  pc = "done" => total_sequences = CountHeaders(output)

(* ---------------- C8 ---------------- *)

\* C8: a run that ends in Failed reports the extraction or write failure that
\* occurred; no other exception escapes convert_tar_to_fasta.
C8_FailedReportsItsCause ==
  pc = "failed" => \/ exc = "ExtractionError" /\ "extract" \in faults
                   \/ exc = "WriteError" /\ "write" \in faults

(* ---------------- C9 ---------------- *)

\* C9: an archive that extracts to zero entries, no I/O call failing, ends in
\* Done with every counter at zero and an output of exactly the two comment
\* lines.
C9_EmptyArchiveIsDone ==
  (pc \in Terminal /\ archive = <<>> /\ faults \cap IoFaults = {})
    => /\ pc = "done"
       /\ extracted_files = <<>>
       /\ output = <<CommentLine(1), CommentLine(2)>>
       /\ total_sequences = 0 /\ seq_count = 0 /\ skipped = 0
       /\ sequences_written = 0 /\ sequences_filtered = 0
       /\ exc = "none"

\* the run over the empty archive has ended in Done
C9_Witness ==
  /\ pc = "done"
  /\ archive = <<>>
  /\ extracted_files = <<>>
  /\ ~dir_exists
  /\ Len(output) = 2

(* ---------------- C10 ---------------- *)

\* the entry at hand is about to be skipped: its suffix is not recognized, or
\* it is a generic entry whose candidates were all tried and none yielded a record
AboutToSkip ==
  \/ InLoop /\ file_path.isfile /\ Category(file_path.name) = "unknown"
  \/ pc = "generic_try" /\ f > Len(formats_to_try) /\ NoCandidate(file_path)

RecordsOf(lines) == SelectSeq(lines, LAMBDA l : l.kind = "record")

\* C11: a second run on the same archive with the same threshold and output
\* path ends as the first did, with the same records in the same order in
\* the output (no I/O call failing in either run); and whatever the first run
\* left behind, the second run starts its loop on the extracted list of the
\* archive with an output that holds the two comment lines only.
C11_SecondRunSameResult ==
  /\ (run = 2 /\ pc \in Terminal
        /\ faults \cap IoFaults = {} /\ first_faults \cap IoFaults = {})
       => /\ pc = first_pc
          /\ RecordsOf(output) = RecordsOf(first_output)
  /\ (run = 2 /\ pc = "loop" /\ i = 1)
       => /\ output = <<CommentLine(1), CommentLine(2)>>
          /\ extracted_files = archive

\* both runs ended in Done and the output holds the same record as after
\* the first run
C11_Witness ==
  /\ run = 2
  /\ pc = "done"
  /\ first_pc = "done"
  /\ faults = {} /\ first_faults = {}
  /\ CountHeaders(output) > 0
  /\ output = first_output

(* ---------------- C12 ---------------- *)

\* s is a prefix of t
IsPrefix(s, t) == Len(s) <= Len(t) /\ SubSeq(t, 1, Len(s)) = s

\* C12: within a run only the initial header write truncates the output;
\* every later step leaves the lines already written, the two comment lines
\* included, in place and unchanged (it may only add lines after them).
C12_AppendOnlyAfterHeader ==
  [][ pc # "init_output" => IsPrefix(output, output') ]_vars

\* records of two extracted files follow the two comment lines, the run is over
C12_Witness ==
  /\ pc = "done"
  /\ Len(output) >= 4
  /\ SubSeq(output, 1, 2) = HeaderLines
  /\ LinesOf(1) # {} /\ LinesOf(2) # {}

(* ---------------- C13 ---------------- *)

\* C13: the removal of the working directory after the loop is best-effort:
\* a run in which only that removal failed still ends in Done.
C13_CleanupFailureIsNotFatal ==
  (pc \in Terminal /\ faults = {"rmtree"}) => pc = "done"

(* ---------------- C14 ---------------- *)

\* C14: the extractor is invoked only after the output has been created or
\* cleared and its header written; a run that failed in the extraction has
\* the header block in its output.
C14_InitBeforeExtracting ==
  (pc = "extract" \/ "extract" \in faults)
    => (output_exists /\ output = HeaderLines)

\* C14, as the code has it: the output is created, cleared and given its
\* header only after the extractor has returned the list of the archive's
\* members; up to then, and in a run that failed in the extraction, the
\* output is untouched.
C14_ExtractingBeforeInit ==
  /\ (pc \in {"start", "extract"} \/ "extract" \in faults)
       => (~output_exists /\ output = <<>>)
  /\ pc = "init_output" => extracted_files = archive
  /\ output_exists => pc \notin {"start", "extract"}

\* the run failed in the extraction and no output file was created
C14_Witness ==
  /\ pc = "failed"
  /\ faults = {"extract"}
  /\ dir_exists
  /\ ~output_exists

(* ---------------- C15 ---------------- *)

\* C15: when a reads-with-quality entry fails to decode after some records
\* were decoded, none of its records is in the output and none is counted
\* as written.
C15_NoPartialRecordsKept ==
  ("decode" \in faults /\ Category(file_path.name) = "fastq")
    => (LinesOf(i) = {} /\ sequences_written = 0)

(* ---------------- C16 ---------------- *)

\* C16: each trial of the generic prober starts with the output and the
\* written counter as they were when the entry began: the trials before it,
\* failed or abandoned, left no line of the entry and counted nothing.
C16_TrialsLeaveNoTrace ==
  pc = "generic_try" => (LinesOf(i) = {} /\ sequences_written = 0)

(* ---------------- C17 ---------------- *)

\* the bytes of member are what its suffix, read without regard to case, announces
SuffixMatchesBytes(member) == member.gzdata = EndsWithGz(Lower(member.name))

\* C17: an upper- or mixed-case compressed suffix is decoded through
\* decompression like its lower-case form: a well-formed entry whose bytes
\* are what its suffix announces does not fail to decode, and an
\* assembled-sequence entry of that kind has all its records written.
C17_CompressedSuffixAnyCase ==
  /\ (pc = "handler" /\ exc = "DecodeError")
       => (file_path.bad \/ ~SuffixMatchesBytes(file_path))
  /\ \A e \in 1..Len(extracted_files) :
       (e < i /\ extracted_files[e].isfile
          /\ Category(extracted_files[e].name) = "fasta"
          /\ SuffixMatchesBytes(extracted_files[e]))
         => Cardinality(LinesOf(e)) = Len(extracted_files[e].recs)

(* ---------------- C18 ---------------- *)

\* C18: at most one decoded record is held at any time, whatever the
\* category of the entry.
C18_AtMostOneRecordHeld ==
  Len(record) + Len(sequences) <= 1

(* ---------------- C19 ---------------- *)

====
